---- MODULE Spec2Model ----
(***************************************************************************)
(* Webhook relay: idempotent event ingestion (EventController.receiveEvent),*)
(* subscription matching (event-processing worker), signed delivery with   *)
(* queue-driven retries (webhook-delivery worker) over two BullMQ queues.  *)
(***************************************************************************)
EXTENDS Integers, Sequences, FiniteSets, TLC

VARIABLES
    events,         \* Event collection: set of documents
    subscriptions,  \* Subscription collection: function id -> document
    deliveryLogs,   \* DeliveryLog collection, by (eventId, subscriptionId): sequence of rows in insertion order
    eventQueue,     \* "event-processing" queue: jobs in the order added (the queue numbers them)
    webhookQueue,   \* "webhook-delivery" queue: function job id -> job
    calls,          \* receiveEvent invocations: position, request, response
    endpoint,       \* what each subscriber's webhookUrl answers
    posts,          \* HTTP POSTs issued, per delivery job
    updates,        \* number of subscription CRUD requests served
    retryCalls,     \* POST /retry/:logId requests served, in order, with their answers
    signer          \* one use of HMACService: inputs, signature produced, verdict

vars == <<events, subscriptions, deliveryLogs, eventQueue, webhookQueue,
          calls, endpoint, posts, updates, retryCalls, signer>>

-----------------------------------------------------------------------------
(* Bounds of the model *)

MaxCalls == 2

MaxUpdates == 1

MaxRetryCalls == 1

MaxRows == 5

MaxRepeatedRetries == 2

MaxWholeRows == 1

MaxWholeRequests == 2

DigestLen == 1

-----------------------------------------------------------------------------
(* Program constants *)

WebhookAttempts == 5

WebhookBackoffDelay == 1000

EventAttempts == 3

EventBackoffDelay == 2000

RetryBaseDelay == 1000

RetryMaxDelay == 30000

ServerErrorFloor == 500

EventTypeEnum ==
    {"job.created", "candidate.applied", "interview.scheduled",
     "candidate.updated", "assessment.completed"}

SourceModuleEnum == {"JOBS", "CANDIDATES", "INTERVIEWS", "ASSESSMENTS"}

MinMaxRetries == 1

MaxMaxRetries == 10

\* BullMQ worker option maxStalledCount, left at its default
MaxStalledCount == 1

-----------------------------------------------------------------------------
(* Inputs *)

Subs == {"s1", "s2"}

CallIds == 1..MaxCalls

\* "" stands for a missing, undefined or empty value (falsy in JavaScript)
Falsy(v) == v = ""

ValidRequests ==
    [eventType : {"job.created", "candidate.applied"}, sourceModule : {"JOBS"},
     payload : {"p"}, idempotencyKey : {"k1"}]
    \cup [eventType : {"candidate.applied"}, sourceModule : {"CANDIDATES"},
          payload : {"p"}, idempotencyKey : {"k2"}]

BrokenRequests ==
    [eventType : {"bogus.type", ""}, sourceModule : {"JOBS"},
     payload : {"p"}, idempotencyKey : {"k1"}]
    \cup [eventType : {"job.created"}, sourceModule : {"BOGUS", ""},
          payload : {"p"}, idempotencyKey : {"k1"}]
    \cup [eventType : {"job.created"}, sourceModule : {"JOBS"},
          payload : {""}, idempotencyKey : {"k1"}]
    \cup [eventType : {"job.created"}, sourceModule : {"JOBS"},
          payload : {"p"}, idempotencyKey : {""}]

Requests == ValidRequests \cup BrokenRequests

\* answers of a subscriber endpoint: an HTTP status
Responses == {200, 404, 500}

-----------------------------------------------------------------------------
(* Stores *)

NoEvent == [_id |-> 0]

NoSubscription == [_id |-> ""]

\* uuidv4(): a fresh public identifier per call
Uuid(c) == <<"uuid", c>>

NoEventId == <<>>

\* the lookup made on the public eventId path instead of idempotencyKey
FindOneByEventId(key) ==
    IF \E e \in events : e.eventId = key
    THEN CHOOSE e \in events : e.eventId = key
    ELSE NoEvent

\* Event.findOne({ idempotencyKey })
FindOneByKey(key) ==
    IF \E e \in events : e.idempotencyKey = key
    THEN CHOOSE e \in events : e.idempotencyKey = key
    ELSE NoEvent

\* Event.findById(id)
EventFindById(id) ==
    IF \E e \in events : e._id = id
    THEN CHOOSE e \in events : e._id = id
    ELSE NoEvent

\* the secret path is declared select: false, so a query returns the
\* document without it: subscription.secret is undefined ("")
SubscriptionFindById(id) ==
    IF id \in DOMAIN subscriptions
    THEN [subscriptions[id] EXCEPT !.secret = ""]
    ELSE NoSubscription

\* the query without its isActive condition
MatchingIgnoringActive(eventType) ==
    {s \in DOMAIN subscriptions : eventType \in subscriptions[s].eventTypes}

\* Subscription.find({ eventTypes: eventType, isActive: true })
MatchingSubscriptions(eventType) ==
    {s \in DOMAIN subscriptions :
        /\ eventType \in subscriptions[s].eventTypes
        /\ subscriptions[s].isActive}

Pairs == CallIds \X Subs

-----------------------------------------------------------------------------
(* Ingestion gate: EventController.receiveEvent, one step per await *)

NoRequest == [eventType |-> "", sourceModule |-> "", payload |-> "", idempotencyKey |-> ""]

NoResponse == [status |-> 0, eventId |-> NoEventId]

\* alone: no other call was in progress at any time during this one
IdleCall ==
    [pc |-> "idle", req |-> NoRequest, event |-> NoEvent, res |-> NoResponse,
     alone |-> TRUE]

InProgress(c) == calls[c].pc \in {"save", "enqueue"}

\* call c starts: it overlaps every call in progress
Overlap(c, started) ==
    [d \in CallIds |->
        IF d = c THEN [started EXCEPT !.alone = \A o \in CallIds \ {c} : ~InProgress(o)]
        ELSE IF InProgress(d) THEN [calls[d] EXCEPT !.alone = FALSE]
        ELSE calls[d]]

Respond(c, status, eventId) ==
    calls' = [calls EXCEPT ![c].pc = "done",
                           ![c].res = [status |-> status, eventId |-> eventId]]

\* the falsy-field check on the request body
MissingField(req) ==
    \/ Falsy(req.eventType)
    \/ Falsy(req.sourceModule)
    \/ Falsy(req.payload)
    \/ Falsy(req.idempotencyKey)

\* schema validation run by event.save(): the enum paths
SchemaInvalid(doc) ==
    \/ doc.eventType \notin EventTypeEnum
    \/ doc.sourceModule \notin SourceModuleEnum

\* idempotencyKey declared without unique: no insert is rejected
NoUniqueIndex(doc) == FALSE

\* the unique index on idempotencyKey rejects the insert (error code 11000)
DuplicateKey(doc) == \E e \in events : e.idempotencyKey = doc.idempotencyKey

\* a key not seen before is named by the lowest unused name
FreshKeyOk(c, req) ==
    \/ req.idempotencyKey \in {"", "k1"}
    \/ \E d \in CallIds : d < c /\ calls[d].req.idempotencyKey = "k1"

\* request arrives: the falsy-field check (400), then
\* await Event.findOne({ idempotencyKey }): found -> 200, else build the document
ReceiveStart(c) ==
    /\ calls[c].pc = "idle"
    /\ \A d \in CallIds : d < c => calls[d].pc # "idle"
    /\ \E req \in Requests :
          /\ FreshKeyOk(c, req)
          /\ LET existingEvent == FindOneByKey(req.idempotencyKey)
             IN calls' = Overlap(c,
                   IF MissingField(req)
                   THEN [calls[c] EXCEPT !.pc = "done", !.req = req,
                             !.res = [status |-> 400, eventId |-> NoEventId]]
                   ELSE IF existingEvent # NoEvent
                   THEN [calls[c] EXCEPT !.pc = "done", !.req = req,
                             !.res = [status |-> 200,
                                      eventId |-> existingEvent.eventId]]
                   ELSE [calls[c] EXCEPT
                             !.pc = "save", !.req = req,
                             !.event = [_id |-> c, eventId |-> Uuid(c),
                                        eventType |-> req.eventType,
                                        sourceModule |-> req.sourceModule,
                                        payload |-> req.payload,
                                        idempotencyKey |-> req.idempotencyKey]])
    /\ UNCHANGED <<events, subscriptions, deliveryLogs, eventQueue, webhookQueue,
                   endpoint, posts, updates, retryCalls, signer>>

\* the save with the duplicate-key error swallowed: the call goes on to enqueue
ReceiveSaveSwallowingDuplicate(c) ==
    /\ calls[c].pc = "save"
    /\ LET event == calls[c].event
       IN IF SchemaInvalid(event)
          THEN /\ Respond(c, 400, NoEventId)
               /\ UNCHANGED events
          ELSE IF DuplicateKey(event)
          THEN /\ calls' = [calls EXCEPT ![c].pc = "enqueue"]
               /\ UNCHANGED events
          ELSE /\ events' = events \cup {event}
               /\ calls' = [calls EXCEPT ![c].pc = "enqueue"]
    /\ UNCHANGED <<subscriptions, deliveryLogs, eventQueue, webhookQueue,
                   endpoint, posts, updates, retryCalls, signer>>

\* await event.save(): ValidationError -> 400, code 11000 -> 409, else inserted
ReceiveSave(c) ==
    /\ calls[c].pc = "save"
    /\ LET event == calls[c].event
       IN IF SchemaInvalid(event)
          THEN /\ Respond(c, 400, NoEventId)
               /\ UNCHANGED events
          ELSE IF DuplicateKey(event)
          THEN /\ Respond(c, 409, NoEventId)
               /\ UNCHANGED events
          ELSE /\ events' = events \cup {event}
               /\ calls' = [calls EXCEPT ![c].pc = "enqueue"]
    /\ UNCHANGED <<subscriptions, deliveryLogs, eventQueue, webhookQueue,
                   endpoint, posts, updates, retryCalls, signer>>

\* the 202 sent without the routing job having been added
ReceiveRespondUnqueued(c) ==
    /\ calls[c].pc = "enqueue"
    /\ Respond(c, 202, calls[c].event.eventId)
    /\ UNCHANGED <<events, subscriptions, deliveryLogs, eventQueue, webhookQueue,
                   endpoint, posts, updates, retryCalls, signer>>

\* a job of the event-processing queue as eventQueue.add creates it
RoutingJob(event) ==
    [data |-> [eventId |-> event._id, eventType |-> event.eventType],
     state |-> "waiting", attemptsMade |-> 0, delay |-> 0,
     failedReason |-> "", subscriptions |-> {}]

\* await eventQueue.add("process-event", ...); then respond 202
ReceiveEnqueue(c) ==
    /\ calls[c].pc = "enqueue"
    /\ LET event == calls[c].event
       IN /\ eventQueue' = Append(eventQueue, RoutingJob(event))
          /\ Respond(c, 202, event.eventId)
    /\ UNCHANGED <<events, subscriptions, deliveryLogs, webhookQueue,
                   endpoint, posts, updates, retryCalls, signer>>

-----------------------------------------------------------------------------
(* Queue substrate: how BullMQ settles a job whose processor threw *)

Min(a, b) == IF a < b THEN a ELSE b

\* the queue leaving a job that has used its attempts where it is, neither
\* rescheduled nor moved to the failed set
MoveToFailedStuck(job, reason, attempts, backoff) ==
    LET made == job.attemptsMade + 1
    IN [job EXCEPT !.attemptsMade = made,
                   !.failedReason = reason,
                   !.state = IF made < attempts THEN "delayed" ELSE "active",
                   !.delay = IF made < attempts THEN backoff ELSE 0]

\* the processor threw: retried after a backoff delay while attempts remain,
\* moved to the failed set otherwise
MoveToFailed(job, reason, attempts, backoff) ==
    LET made == job.attemptsMade + 1
    IN [job EXCEPT !.attemptsMade = made,
                   !.failedReason = reason,
                   !.state = IF made < attempts THEN "delayed" ELSE "failed",
                   !.delay = IF made < attempts THEN backoff ELSE 0]

\* backoff { type: "exponential", delay: 1000 } after the made-th failure
ExponentialBackoff(made) == WebhookBackoffDelay * 2 ^ (made - 1)

-----------------------------------------------------------------------------
(* Router: the event-processing worker *)

RouterJobId(event, s) == <<event._id, s>>

NoLog == [deliveryAttempt |-> 0]

\* a job of the webhook-delivery queue as the router's addBulk creates it
DeliveryJob(event, s) ==
    [data |-> [eventId |-> event._id, subscriptionId |-> s, deliveryAttempt |-> 1],
     origin |-> "router",
     state |-> "waiting", attemptsMade |-> 0, delay |-> 0, failedReason |-> "",
     pc |-> "", event |-> NoEvent, subscription |-> NoSubscription,
     deliveryLog |-> NoLog, logIdx |-> 0]

\* Event.findById, then Subscription.find: the matching subscriptions are held
\* by the processor until it enqueues
RouterFind(r) ==
    /\ r \in DOMAIN eventQueue
    /\ eventQueue[r].state \in {"waiting", "delayed"}
    /\ LET job == eventQueue[r]
           event == EventFindById(job.data.eventId)
       IN IF event = NoEvent
          THEN eventQueue' = [eventQueue EXCEPT ![r] =
                   MoveToFailed(job, "Event not found", EventAttempts, EventBackoffDelay)]
          ELSE eventQueue' = [eventQueue EXCEPT
                   ![r].state = "active",
                   ![r].subscriptions = MatchingSubscriptions(job.data.eventType)]
    /\ UNCHANGED <<events, subscriptions, deliveryLogs, webhookQueue, calls,
                   endpoint, posts, updates, retryCalls, signer>>

\* webhookQueue.addBulk(jobs): one job per held subscription; a job whose id
\* is already in the queue is not added again
RouterEnqueue(r) ==
    /\ r \in DOMAIN eventQueue
    /\ eventQueue[r].state = "active"
    /\ LET job == eventQueue[r]
           event == EventFindById(job.data.eventId)
           ids == {RouterJobId(event, s) : s \in job.subscriptions}
       IN /\ webhookQueue' = [j \in DOMAIN webhookQueue \cup ids |->
                                 IF j \in DOMAIN webhookQueue
                                 THEN webhookQueue[j]
                                 ELSE DeliveryJob(event, j[2])]
          /\ eventQueue' = [eventQueue EXCEPT ![r].state = "completed",
                                              ![r].subscriptions = {}]
    /\ UNCHANGED <<events, subscriptions, deliveryLogs, calls,
                   endpoint, posts, updates, retryCalls, signer>>

-----------------------------------------------------------------------------
(* Signer: HMACService.generateSignature *)

\* A JavaScript value is <<"string", s>>, <<"number", n>> or <<"object",
\* entries>>, entries the own properties as <<name, value>> in insertion order

\* the property names in use, in UTF-16 code unit order (the order of sort())
KeyOrder == <<"a", "b", "c">>

IsObject(value) == value[1] = "object"

Has(value, k) == \E i \in 1..Len(value[2]) : value[2][i][1] = k

Get(value, k) == value[2][CHOOSE i \in 1..Len(value[2]) : value[2][i][1] = k][2]

\* Object.keys(payload): the names in insertion order
ObjectKeys(value) == [i \in 1..Len(value[2]) |-> value[2][i][1]]

\* Array.prototype.sort() on property names
Sort(keys) ==
    SelectSeq(KeyOrder, LAMBDA k : \E i \in 1..Len(keys) : keys[i] = k)

\* JSON.stringify(value) with no replacer: every property, in insertion order
RECURSIVE StringifyPlain(_)
StringifyPlain(value) ==
    IF IsObject(value)
    THEN <<"{", [i \in 1..Len(value[2]) |->
                    <<value[2][i][1], StringifyPlain(value[2][i][2])>>], "}">>
    ELSE value

\* JSON.stringify(value, propertyList): at every depth an object is written
\* with the names of propertyList that it has, in the order of propertyList
RECURSIVE Stringify(_, _)
Stringify(value, propertyList) ==
    IF IsObject(value)
    THEN LET present == SelectSeq(propertyList, LAMBDA k : Has(value, k))
         IN <<"{", [i \in 1..Len(present) |->
                       <<present[i], Stringify(Get(value, present[i]), propertyList)>>],
              "}">>
    ELSE value

\* the payload serialised as it comes, without the sorted names
PayloadStringUnsorted(payload) ==
    IF payload[1] = "string" THEN <<payload[2]>> ELSE StringifyPlain(payload)

\* typeof payload === "string" ? payload
\*     : JSON.stringify(payload, Object.keys(payload).sort())
\* (a text is a sequence of tokens; a string payload is one token)
PayloadString(payload) ==
    IF payload[1] = "string"
    THEN <<payload[2]>>
    ELSE Stringify(payload, Sort(ObjectKeys(payload)))

SignatureError == <<"TypeError", "key">>

\* crypto.createHmac("sha256", secret) throws when the key is undefined; the
\* digest is named by the key and the text it is computed from (no two of them
\* give the same digest); its hexadecimal text is HexText below
GenerateSignature(payload, secret) ==
    IF secret = ""
    THEN SignatureError
    ELSE <<"hmac-sha256", PayloadString(payload), secret>>

\* the characters of a signature text the model tells apart: a digit and a
\* letter as digest("hex") writes them, the letter in upper case, a non-hex one
LowerHex == {"0", "a"}

SignatureChars == {"0", "a", "A", "g"}

\* the texts digest("hex") can produce for a digest of DigestLen bytes
HexDigests == [1..(2 * DigestLen) -> LowerHex]

\* the value of a hexadecimal digit in either case, -1 for any other character
HexValue(c) ==
    IF c = "0" THEN 0 ELSE IF c \in {"a", "A"} THEN 10 ELSE -1

\* Buffer.from(text, "hex"): whole pairs of digits up to the first character
\* that is not a hexadecimal digit
HexDecode(text) ==
    LET ValidPair(i) == HexValue(text[2 * i - 1]) >= 0 /\ HexValue(text[2 * i]) >= 0
        n == CHOOSE k \in 0..(Len(text) \div 2) :
                 /\ \A i \in 1..k : ValidPair(i)
                 /\ k < Len(text) \div 2 => ~ValidPair(k + 1)
    IN [i \in 1..n |-> 16 * HexValue(text[2 * i - 1]) + HexValue(text[2 * i])]

\* the hexadecimal text of a digest computed in this use of the service
HexText(digest) == signer.hexOf[digest]

\* verifySignature: crypto.timingSafeEqual on the two decoded buffers; it
\* throws when their lengths differ, and any throw is caught and answered false
VerifySignature(payload, signature, secret) ==
    IF GenerateSignature(payload, secret) = SignatureError
    THEN FALSE
    ELSE LET expectedSignature == HexText(GenerateSignature(payload, secret))
             a == HexDecode(signature)
             b == HexDecode(expectedSignature)
         IN IF Len(a) # Len(b) THEN FALSE ELSE a = b

-----------------------------------------------------------------------------
(* One use of HMACService: sign a payload, then verify a presented signature *)

Secrets == {"secret1", "secret2"}

Numbers == {<<"number", 1>>, <<"number", 2>>}

\* the sequences of distinct names of K
KeySeqs(K) ==
    {q \in UNION {[1..n -> K] : n \in 0..Cardinality(K)} :
        \A i, j \in DOMAIN q : i # j => q[i] # q[j]}

\* the objects with property names of K and values of V
ObjectsOver(K, V) ==
    UNION {{<<"object", [i \in DOMAIN q |-> <<q[i], v[i]>>]>> : v \in [DOMAIN q -> V]}
              : q \in KeySeqs(K)}

NestedObjects == ObjectsOver({"a", "c"}, {<<"number", 1>>})

Payloads ==
    ObjectsOver({"a", "b"}, Numbers \cup NestedObjects) \cup {<<"string", "p">>}

\* the same logical content: the same names with the same values, in any order
RECURSIVE SameContent(_, _)
SameContent(v, w) ==
    IF IsObject(v) /\ IsObject(w)
    THEN /\ \A k \in {"a", "b", "c"} : Has(v, k) <=> Has(w, k)
         /\ \A k \in {"a", "b", "c"} : Has(v, k) => SameContent(Get(v, k), Get(w, k))
    ELSE v = w

\* generateSignature(payload, secret), and again for a payload of the same
\* content and a second time for the same payload; digest("hex") writes the
\* digest as some text of lower-case hexadecimal digits
Sign ==
    /\ signer.pc = "idle"
    /\ \E payload \in Payloads, secret \in Secrets, text \in HexDigests :
       \E other \in {q \in Payloads : SameContent(q, payload)} :
          signer' = [pc |-> "signed", payload |-> payload, other |-> other,
                     secret |-> secret,
                     signature |-> GenerateSignature(payload, secret),
                     otherSignature |-> GenerateSignature(other, secret),
                     again |-> GenerateSignature(payload, secret),
                     hexOf |-> [d \in {GenerateSignature(payload, secret)} |-> text],
                     kind |-> "", presented |-> <<>>, valid |-> FALSE]
    /\ UNCHANGED <<events, subscriptions, deliveryLogs, eventQueue, webhookQueue,
                   calls, endpoint, posts, updates, retryCalls>>

\* generateSignature(payload, secret) for two payloads, of the same content or
\* not, with one secret
SignBoth ==
    /\ signer.pc = "idle"
    /\ \E payload \in Payloads, other \in Payloads, secret \in Secrets :
          signer' = [pc |-> "both", payload |-> payload, other |-> other,
                     secret |-> secret,
                     payloadString |-> PayloadString(payload),
                     otherString |-> PayloadString(other),
                     signature |-> GenerateSignature(payload, secret),
                     otherSignature |-> GenerateSignature(other, secret)]
    /\ UNCHANGED <<events, subscriptions, deliveryLogs, eventQueue, webhookQueue,
                   calls, endpoint, posts, updates, retryCalls>>

\* the texts that differ from text in exactly one character
OneCharMutations(text) ==
    {[text EXCEPT ![i] = c] : i \in DOMAIN text, c \in SignatureChars} \ {text}

\* a signature is presented for the signed payload: the one produced, one that
\* differs from it in one character, or the one produced with another secret
\* (another digest, so another text)
Present ==
    /\ signer.pc = "signed"
    /\ LET text == signer.hexOf[signer.signature]
       IN \/ signer' = [signer EXCEPT !.pc = "presented", !.kind = "produced",
                                      !.presented = text]
          \/ \E mutated \in OneCharMutations(text) :
                signer' = [signer EXCEPT !.pc = "presented", !.kind = "mutated",
                                         !.presented = mutated]
          \/ \E secret \in Secrets \ {signer.secret}, wrong \in HexDigests \ {text} :
                signer' = [signer EXCEPT
                              !.pc = "presented", !.kind = "wrong secret",
                              !.presented = wrong,
                              !.hexOf = @ @@ (GenerateSignature(signer.payload, secret)
                                                 :> wrong)]
    /\ UNCHANGED <<events, subscriptions, deliveryLogs, eventQueue, webhookQueue,
                   calls, endpoint, posts, updates, retryCalls>>

\* verifySignature(payload, presented, secret)
Verify ==
    /\ signer.pc = "presented"
    /\ signer' = [signer EXCEPT !.pc = "verified",
                                !.valid = VerifySignature(signer.payload,
                                                          signer.presented,
                                                          signer.secret)]
    /\ UNCHANGED <<events, subscriptions, deliveryLogs, eventQueue, webhookQueue,
                   calls, endpoint, posts, updates, retryCalls>>

SignerNext == Sign \/ Present \/ Verify

-----------------------------------------------------------------------------
(* Delivery worker: the webhook-delivery processor, one step per await *)

\* new DeliveryLog({ eventId, subscriptionId, deliveryAttempt, status: "pending" })
NewDeliveryLog(deliveryAttempt) ==
    [deliveryAttempt |-> deliveryAttempt, status |-> "pending",
     responseStatus |-> 0, error |-> "", deliveredAt |-> FALSE,
     nextRetryAt |-> 0, hmacVerified |-> FALSE]

\* the job leaves the processor: its locals are gone
Settled(job) ==
    [job EXCEPT !.pc = "", !.event = NoEvent, !.subscription = NoSubscription,
                !.deliveryLog = NoLog, !.logIdx = 0]

\* validateStatus: any status below 500 resolves, the rest rejects
ValidateStatus(status) == status < ServerErrorFloor

\* the delay with the exponent counted from the attempt, not the one before
RetryDelayFromAttempt(deliveryAttempt) ==
    Min(RetryBaseDelay * 2 ^ deliveryAttempt, RetryMaxDelay)

\* Math.min(1000 * Math.pow(2, deliveryAttempt - 1), 30000)
RetryDelay(deliveryAttempt) ==
    Min(RetryBaseDelay * 2 ^ (deliveryAttempt - 1), RetryMaxDelay)

\* deliveryAttempt < subscription.maxRetries
ShouldRetry(deliveryAttempt, subscription) == deliveryAttempt < subscription.maxRetries

\* the outcome with hmacVerified set as soon as the document is built, whatever
\* becomes of the signature and the POST
AttemptedVerifiedFirst(deliveryLog, signature, status) ==
    IF signature = SignatureError
    THEN [deliveryLog EXCEPT !.status = "failed", !.error = "key argument",
                             !.hmacVerified = TRUE]
    ELSE IF status # 0 /\ ValidateStatus(status)
    THEN [deliveryLog EXCEPT !.status = "success", !.responseStatus = status,
                             !.deliveredAt = TRUE, !.hmacVerified = TRUE]
    ELSE [deliveryLog EXCEPT !.status = "failed", !.responseStatus = status,
                             !.hmacVerified = TRUE,
                             !.error = IF status = 0 THEN "Network error"
                                       ELSE "status code"]

\* the outcome of the try block up to the first save, set on the in-memory
\* DeliveryLog document: the signature throws, or the POST is answered
Attempted(deliveryLog, signature, status) ==
    IF signature = SignatureError
    THEN [deliveryLog EXCEPT !.status = "failed", !.error = "key argument"]
    ELSE IF status # 0 /\ ValidateStatus(status)
    THEN [deliveryLog EXCEPT !.status = "success", !.responseStatus = status,
                             !.deliveredAt = TRUE, !.hmacVerified = TRUE]
    ELSE [deliveryLog EXCEPT !.status = "failed", !.responseStatus = status,
                             !.error = IF status = 0 THEN "Network error"
                                       ELSE "status code"]

\* the processor without its check of isActive: an execution for a deactivated
\* subscription goes on to build its DeliveryLog
DeliveryLoadUnchecked(j) ==
    /\ j \in DOMAIN webhookQueue
    /\ webhookQueue[j].state \in {"waiting", "delayed"}
    /\ LET job == webhookQueue[j]
           pair == <<job.data.eventId, job.data.subscriptionId>>
           event == EventFindById(job.data.eventId)
           subscription == SubscriptionFindById(job.data.subscriptionId)
           reason == IF event = NoEvent THEN "Event not found"
                     ELSE IF subscription = NoSubscription THEN "Subscription not found"
                     ELSE ""
           signature == GenerateSignature(<<"string", event.payload>>, subscription.secret)
       IN IF reason # ""
          THEN /\ webhookQueue' = [webhookQueue EXCEPT ![j] =
                      MoveToFailed(job, reason, WebhookAttempts,
                                   ExponentialBackoff(job.attemptsMade + 1))]
               /\ UNCHANGED posts
          ELSE /\ webhookQueue' = [webhookQueue EXCEPT ![j] =
                      [job EXCEPT !.state = "active", !.delay = 0, !.pc = "save",
                                  !.event = event, !.subscription = subscription,
                                  !.deliveryLog =
                                      Attempted(NewDeliveryLog(job.data.deliveryAttempt),
                                                signature,
                                                endpoint[job.data.subscriptionId])]]
               /\ posts' = [posts EXCEPT ![pair] =
                              IF signature = SignatureError THEN @ ELSE @ + 1]
    /\ UNCHANGED <<events, subscriptions, deliveryLogs, eventQueue, calls,
                   endpoint, updates, retryCalls, signer>>

\* the queue hands the job to the processor: load Event and Subscription and
\* validate (a throw here fails the job), build the DeliveryLog document, sign
\* the payload and, signed, POST it; the document is saved in the next step
DeliveryLoad(j) ==
    /\ j \in DOMAIN webhookQueue
    /\ webhookQueue[j].state \in {"waiting", "delayed"}
    /\ LET job == webhookQueue[j]
           pair == <<job.data.eventId, job.data.subscriptionId>>
           event == EventFindById(job.data.eventId)
           subscription == SubscriptionFindById(job.data.subscriptionId)
           reason == IF event = NoEvent THEN "Event not found"
                     ELSE IF subscription = NoSubscription THEN "Subscription not found"
                     ELSE IF ~subscription.isActive THEN "Subscription is inactive"
                     ELSE ""
           signature == GenerateSignature(<<"string", event.payload>>, subscription.secret)
       IN IF reason # ""
          THEN /\ webhookQueue' = [webhookQueue EXCEPT ![j] =
                      MoveToFailed(job, reason, WebhookAttempts,
                                   ExponentialBackoff(job.attemptsMade + 1))]
               /\ UNCHANGED posts
          ELSE /\ webhookQueue' = [webhookQueue EXCEPT ![j] =
                      [job EXCEPT !.state = "active", !.delay = 0, !.pc = "save",
                                  !.event = event, !.subscription = subscription,
                                  !.deliveryLog =
                                      Attempted(NewDeliveryLog(job.data.deliveryAttempt),
                                                signature,
                                                endpoint[job.data.subscriptionId])]]
               /\ posts' = [posts EXCEPT ![pair] =
                              IF signature = SignatureError THEN @ ELSE @ + 1]
    /\ UNCHANGED <<events, subscriptions, deliveryLogs, eventQueue, calls,
                   endpoint, updates, retryCalls, signer>>

\* the catch block throwing without awaiting its save: the job is rescheduled
\* with no row stored
DeliveryThrowUnsaved(j) ==
    /\ j \in DOMAIN webhookQueue
    /\ webhookQueue[j].pc = "save"
    /\ webhookQueue' = [webhookQueue EXCEPT ![j] =
           Settled(MoveToFailed(webhookQueue[j], "Delivery failed, will retry",
                                WebhookAttempts,
                                ExponentialBackoff(webhookQueue[j].attemptsMade + 1)))]
    /\ UNCHANGED <<events, subscriptions, deliveryLogs, eventQueue, calls, endpoint,
                   posts, updates, retryCalls, signer>>

\* await deliveryLog.save(): the row is inserted; a delivered job returns
DeliverySave(j) ==
    /\ j \in DOMAIN webhookQueue
    /\ webhookQueue[j].pc = "save"
    /\ LET job == webhookQueue[j]
           pair == <<job.data.eventId, job.data.subscriptionId>>
       IN /\ deliveryLogs' = [deliveryLogs EXCEPT ![pair] = Append(@, job.deliveryLog)]
          /\ IF job.deliveryLog.status = "success"
             THEN webhookQueue' = [webhookQueue EXCEPT ![j] =
                      Settled([job EXCEPT !.state = "completed"])]
             ELSE webhookQueue' = [webhookQueue EXCEPT
                      ![j].pc = "retry",
                      ![j].logIdx = Len(deliveryLogs[pair]) + 1]
    /\ UNCHANGED <<events, subscriptions, eventQueue, calls, endpoint, posts, updates, retryCalls, signer>>

\* the retry logic marking the pair's latest row instead of the document the
\* execution saved
DeliveryRetryLatestRow(j) ==
    /\ j \in DOMAIN webhookQueue
    /\ webhookQueue[j].pc = "retry"
    /\ LET job == webhookQueue[j]
           pair == <<job.data.eventId, job.data.subscriptionId>>
           deliveryAttempt == job.data.deliveryAttempt
           backoff == ExponentialBackoff(job.attemptsMade + 1)
       IN IF ShouldRetry(deliveryAttempt, job.subscription)
          THEN /\ deliveryLogs' = [deliveryLogs EXCEPT ![pair][Len(deliveryLogs[pair])] =
                      [@ EXCEPT !.nextRetryAt = RetryDelay(deliveryAttempt),
                                !.status = "retrying"]]
               /\ webhookQueue' = [webhookQueue EXCEPT ![j] =
                      Settled(MoveToFailed(job, "Delivery failed, will retry",
                                           WebhookAttempts, backoff))]
          ELSE /\ UNCHANGED deliveryLogs
               /\ webhookQueue' = [webhookQueue EXCEPT ![j] =
                      Settled(MoveToFailed(job, "Delivery failed after max attempts",
                                           WebhookAttempts, backoff))]
    /\ UNCHANGED <<events, subscriptions, eventQueue, calls, endpoint, posts, updates, retryCalls, signer>>

\* retry logic of the catch block: mark the row retrying and save it when
\* shouldRetry, then throw either way
DeliveryRetry(j) ==
    /\ j \in DOMAIN webhookQueue
    /\ webhookQueue[j].pc = "retry"
    /\ LET job == webhookQueue[j]
           pair == <<job.data.eventId, job.data.subscriptionId>>
           deliveryAttempt == job.data.deliveryAttempt
           backoff == ExponentialBackoff(job.attemptsMade + 1)
       IN IF ShouldRetry(deliveryAttempt, job.subscription)
          THEN /\ deliveryLogs' = [deliveryLogs EXCEPT ![pair][job.logIdx] =
                      [@ EXCEPT !.nextRetryAt = RetryDelay(deliveryAttempt),
                                !.status = "retrying"]]
               /\ webhookQueue' = [webhookQueue EXCEPT ![j] =
                      Settled(MoveToFailed(job, "Delivery failed, will retry",
                                           WebhookAttempts, backoff))]
          ELSE /\ UNCHANGED deliveryLogs
               /\ webhookQueue' = [webhookQueue EXCEPT ![j] =
                      Settled(MoveToFailed(job, "Delivery failed after max attempts",
                                           WebhookAttempts, backoff))]
    /\ UNCHANGED <<events, subscriptions, eventQueue, calls, endpoint, posts, updates, retryCalls, signer>>

-----------------------------------------------------------------------------
(* Manual retry: POST /api/dashboard/retry/:logId, one step per await *)

\* a DeliveryLog _id: the pair it belongs to and its position among the pair's rows
LogIds ==
    UNION {{<<p, i>> : i \in 1..Len(deliveryLogs[p])} : p \in Pairs}

\* an id no DeliveryLog carries
MissingLogId == <<<<0, "">>, 0>>

\* the ids a request names: the endpoint reads only the pair and the
\* deliveryAttempt of the row, so of the rows of a pair that carry the same
\* deliveryAttempt the first stands for all; and one unknown id
RetryTargets ==
    {id \in LogIds :
        \A i \in 1..(id[2] - 1) :
            deliveryLogs[id[1]][i].deliveryAttempt
                # deliveryLogs[id[1]][id[2]].deliveryAttempt}
    \cup {MissingLogId}

\* DeliveryLog.findById(logId)
DeliveryLogFindById(logId) ==
    IF logId \in LogIds THEN deliveryLogs[logId[1]][logId[2]] ELSE NoLog

\* .populate("subscriptionId"): the referenced document, null when it is gone
PopulateSubscription(logId) ==
    IF logId[1][2] \in DOMAIN subscriptions
    THEN subscriptions[logId[1][2]]
    ELSE NoSubscription

Answer(status, error) == [status |-> status, error |-> error]

\* the checks with the attempt compared by > : a row at maxRetries passes
RetryCheckAboveMax(deliveryLog, subscription) ==
    IF deliveryLog = NoLog
    THEN Answer(404, "Delivery log not found")
    ELSE IF subscription = NoSubscription
    THEN Answer(500, "Failed to retry delivery")
    ELSE IF ~subscription.isActive
    THEN Answer(400, "Cannot retry - subscription is inactive")
    ELSE IF deliveryLog.deliveryAttempt > subscription.maxRetries
    THEN Answer(400, "Maximum retry attempts exceeded")
    ELSE Answer(0, "")

\* the answer of the checks made on the populated DeliveryLog; status 0: none,
\* go on. Reading isActive of a null subscription throws: the catch block
\* answers 500
RetryCheck(deliveryLog, subscription) ==
    IF deliveryLog = NoLog
    THEN Answer(404, "Delivery log not found")
    ELSE IF subscription = NoSubscription
    THEN Answer(500, "Failed to retry delivery")
    ELSE IF ~subscription.isActive
    THEN Answer(400, "Cannot retry - subscription is inactive")
    ELSE IF deliveryLog.deliveryAttempt >= subscription.maxRetries
    THEN Answer(400, "Maximum retry attempts exceeded")
    ELSE Answer(0, "")

\* the job data of a retry: the attempt after the one the DeliveryLog records
RetryJobData(logId, deliveryLog) ==
    [eventId |-> logId[1][1], subscriptionId |-> logId[1][2],
     deliveryAttempt |-> deliveryLog.deliveryAttempt + 1, isRetry |-> TRUE]

NoJobData == [deliveryAttempt |-> 0]

\* jobId: `retry-${eventId}-${subscriptionId}-${Date.now()}`
RetryJobId(data, now) == <<"retry", data.eventId, data.subscriptionId, now>>

\* a job of the webhook-delivery queue as the retry endpoint's add creates it
RetryJob(data) ==
    [data |-> data, origin |-> "manual",
     state |-> "waiting", attemptsMade |-> 0, delay |-> 0, failedReason |-> "",
     pc |-> "", event |-> NoEvent, subscription |-> NoSubscription,
     deliveryLog |-> NoLog, logIdx |-> 0]

\* the request arrives: findById with both populates, then the two checks
RetryLookup(logId) ==
    /\ LET deliveryLog == DeliveryLogFindById(logId)
           answer == RetryCheck(deliveryLog, PopulateSubscription(logId))
       IN retryCalls' = Append(retryCalls,
              [logId |-> logId,
               pc |-> IF answer.status = 0 THEN "enqueue" ELSE "done",
               status |-> answer.status,
               error |-> answer.error,
               data |-> IF answer.status = 0 THEN RetryJobData(logId, deliveryLog)
                        ELSE NoJobData])
    /\ UNCHANGED <<events, subscriptions, deliveryLogs, eventQueue, webhookQueue,
                   calls, endpoint, posts, updates, signer>>

\* the endpoint marking the retried row as it enqueues
RetryEnqueueMarkingRow(k) ==
    /\ k \in DOMAIN retryCalls
    /\ retryCalls[k].pc = "enqueue"
    /\ \E now \in 1..k :
          LET data == retryCalls[k].data
              id == RetryJobId(data, now)
          IN webhookQueue' =
                 [j \in DOMAIN webhookQueue \cup {id} |->
                     IF j \in DOMAIN webhookQueue THEN webhookQueue[j]
                     ELSE RetryJob(data)]
    /\ deliveryLogs' = [deliveryLogs EXCEPT
           ![retryCalls[k].logId[1]][retryCalls[k].logId[2]].status = "pending"]
    /\ retryCalls' = [retryCalls EXCEPT ![k].pc = "done", ![k].status = 200]
    /\ UNCHANGED <<events, subscriptions, eventQueue,
                   calls, endpoint, posts, updates, signer>>

\* Date.now() when request k builds its jobId: the millisecond of an earlier
\* request or a later one, numbered in order of first use
ClockReadings(k) == 1..k

\* await webhookQueue.add(...): a job whose id is already in the queue is not
\* added again; then respond 200
RetryEnqueue(k) ==
    /\ k \in DOMAIN retryCalls
    /\ retryCalls[k].pc = "enqueue"
    /\ \E now \in ClockReadings(k) :
          LET data == retryCalls[k].data
              id == RetryJobId(data, now)
          IN webhookQueue' =
                 [j \in DOMAIN webhookQueue \cup {id} |->
                     IF j \in DOMAIN webhookQueue THEN webhookQueue[j]
                     ELSE RetryJob(data)]
    /\ retryCalls' = [retryCalls EXCEPT ![k].pc = "done", ![k].status = 200]
    /\ UNCHANGED <<events, subscriptions, deliveryLogs, eventQueue,
                   calls, endpoint, posts, updates, signer>>

-----------------------------------------------------------------------------
(* Subscription CRUD surface *)

UpdateBodies == {[isActive |-> TRUE], [isActive |-> FALSE]}

\* request bodies that also name the secret: a new one, an empty one, and a
\* new one together with another field
SecretUpdateBodies ==
    UpdateBodies \cup {[secret |-> "secret3"], [secret |-> ""],
                       [secret |-> "secret3", isActive |-> FALSE]}

\* runValidators: the schema's validators on the paths the update sets
\* (secret is required, so not empty; maxRetries has min and max)
UpdateValid(body) ==
    /\ "secret" \in DOMAIN body => body.secret # ""
    /\ "maxRetries" \in DOMAIN body =>
          body.maxRetries \in MinMaxRetries..MaxMaxRetries

\* Subscription.findByIdAndUpdate(id, { ...updates, updatedAt }): every schema
\* path the body names is set; a failing validator rejects the whole update
UpdateSubscription(s, body) ==
    /\ updates < MaxUpdates
    /\ s \in DOMAIN subscriptions
    /\ subscriptions' = [subscriptions EXCEPT ![s] =
           [f \in DOMAIN subscriptions[s] |->
               IF UpdateValid(body) /\ f \in DOMAIN body
               THEN body[f] ELSE subscriptions[s][f]]]
    /\ updates' = updates + 1
    /\ UNCHANGED <<events, deliveryLogs, eventQueue, webhookQueue, calls,
                   endpoint, posts, retryCalls, signer>>

\* Subscription.findByIdAndDelete(id)
DeleteSubscription(s) ==
    /\ updates < MaxUpdates
    /\ s \in DOMAIN subscriptions
    /\ subscriptions' = [t \in DOMAIN subscriptions \ {s} |-> subscriptions[t]]
    /\ updates' = updates + 1
    /\ UNCHANGED <<events, deliveryLogs, eventQueue, webhookQueue, calls,
                   endpoint, posts, retryCalls, signer>>

-----------------------------------------------------------------------------
(* The Event store *)

\* call c has inserted its Event
Inserted(c) ==
    \/ calls[c].pc = "enqueue"
    \/ calls[c].pc = "done" /\ calls[c].res.status = 202

\* the Event collection loses a document (removed in MongoDB by hand, or by a
\* restore of the database): the code never deletes an Event, and both workers
\* check for one that is gone. One loss is followed
EventLost(e) ==
    /\ e \in events
    /\ \A c \in CallIds : Inserted(c) => calls[c].event \in events
    /\ events' = events \ {e}
    /\ UNCHANGED <<subscriptions, deliveryLogs, eventQueue, webhookQueue, calls,
                   endpoint, posts, updates, retryCalls, signer>>

-----------------------------------------------------------------------------
(* Specification *)

\* the subscriptions registered before the run: s1 as createSubscription leaves
\* it (maxRetries default 3), s2 updated to maxRetries 1 and a second event type
InitialSubscription(s) ==
    [_id |-> s,
     eventTypes |-> IF s = "s1" THEN {"job.created"}
                    ELSE {"job.created", "candidate.applied"},
     secret |-> IF s = "s1" THEN "secret1" ELSE "secret2",
     isActive |-> TRUE,
     maxRetries |-> IF s = "s1" THEN 3 ELSE 1]

\* HMACService not in use
NoSigner == [pc |-> "idle"]

Init ==
    /\ events = {}
    /\ subscriptions = [s \in Subs |-> InitialSubscription(s)]
    /\ deliveryLogs = [p \in Pairs |-> <<>>]
    /\ eventQueue = <<>>
    /\ webhookQueue = <<>>
    /\ calls = [c \in CallIds |-> IdleCall]
    /\ \E status \in Responses : endpoint = [s \in Subs |-> status]
    /\ posts = [p \in Pairs |-> 0]
    /\ updates = 0
    /\ retryCalls = <<>>
    /\ signer = NoSigner

Next ==
    \/ \E c \in CallIds : ReceiveStart(c)
    \/ \E c \in CallIds : ReceiveSave(c)
    \/ \E c \in CallIds : ReceiveEnqueue(c)
    \/ \E r \in DOMAIN eventQueue : RouterFind(r)
    \/ \E r \in DOMAIN eventQueue : RouterEnqueue(r)
    \/ \E j \in Pairs : DeliveryLoad(j)
    \/ \E j \in Pairs : DeliverySave(j)
    \/ \E j \in Pairs : DeliveryRetry(j)
    \/ \E s \in Subs, body \in UpdateBodies : UpdateSubscription(s, body)
    \/ \E s \in Subs : DeleteSubscription(s)

Spec == Init /\ [][Next]_vars

\* the pipeline up to the webhook-delivery queue: the ingestion gate, the
\* router and the subscription CRUD surface, with no delivery worker running
RoutingNext ==
    \/ \E c \in CallIds : ReceiveStart(c)
    \/ \E c \in CallIds : ReceiveSave(c)
    \/ \E c \in CallIds : ReceiveEnqueue(c)
    \/ \E r \in DOMAIN eventQueue : RouterFind(r)
    \/ \E r \in DOMAIN eventQueue : RouterEnqueue(r)
    \/ \E s \in Subs, body \in UpdateBodies : UpdateSubscription(s, body)
    \/ \E s \in Subs : DeleteSubscription(s)

RoutingSpec == Init /\ [][RoutingNext]_vars

\* the Event of one accepted request (call 1)
RoutedEvent(eventType) ==
    [_id |-> 1, eventId |-> Uuid(1), eventType |-> eventType,
     sourceModule |-> "JOBS", payload |-> "p", idempotencyKey |-> "k1"]

\* the state the pipeline is in when the router has fanned the Event of call 1
\* out to one subscription s: call 1 answered 202, the routing job completed,
\* one delivery job waiting. For s2 the Event is a candidate.applied, which s1
\* does not list; for s1 it is a job.created routed while s2 was deactivated
DeliveryInit ==
    \E s \in Subs :
        LET event == RoutedEvent(IF s = "s1" THEN "job.created" ELSE "candidate.applied")
        IN /\ events = {event}
           /\ subscriptions =
                 [t \in Subs |->
                     [InitialSubscription(t) EXCEPT !.isActive = (s = "s2" \/ t = "s1")]]
           /\ updates = IF s = "s1" THEN 1 ELSE 0
           /\ deliveryLogs = [p \in Pairs |-> <<>>]
           /\ eventQueue = <<[RoutingJob(event) EXCEPT !.state = "completed"]>>
           /\ webhookQueue = [j \in {RouterJobId(event, s)} |-> DeliveryJob(event, s)]
           /\ calls = [c \in CallIds |->
                          IF c = 1
                          THEN [pc |-> "done",
                                req |-> [eventType |-> event.eventType,
                                         sourceModule |-> "JOBS",
                                         payload |-> "p", idempotencyKey |-> "k1"],
                                event |-> event,
                                res |-> [status |-> 202, eventId |-> Uuid(1)],
                                alone |-> TRUE]
                          ELSE IdleCall]
           /\ \E status \in Responses : endpoint = [t \in Subs |-> status]
           /\ posts = [p \in Pairs |-> 0]
           /\ retryCalls = <<>>
           /\ signer = NoSigner

\* the rows of the pair of job j, stored or about to be by an execution in
\* progress
RowsInSight(j) ==
    LET data == webhookQueue[j].data
    IN Len(deliveryLogs[<<data.eventId, data.subscriptionId>>])
       + Cardinality({k \in DOMAIN webhookQueue :
                         /\ webhookQueue[k].pc = "save"
                         /\ webhookQueue[k].data.eventId = data.eventId
                         /\ webhookQueue[k].data.subscriptionId = data.subscriptionId})

\* the delivery stage: the delivery worker, the manual retry endpoint and the
\* subscription CRUD surface, with no further event ingested; the jobs of a
\* pair are followed until MaxRows of its rows are in sight, and MaxRetryCalls
\* retry requests are served
DeliveryNext ==
    \/ \E j \in DOMAIN webhookQueue : RowsInSight(j) < MaxRows /\ DeliveryLoad(j)
    \/ \E j \in DOMAIN webhookQueue : DeliverySave(j)
    \/ \E j \in DOMAIN webhookQueue : DeliveryRetry(j)
    \/ \E logId \in RetryTargets :
          Len(retryCalls) < MaxRetryCalls /\ RetryLookup(logId)
    \/ \E k \in DOMAIN retryCalls : RetryEnqueue(k)
    \/ \E s \in Subs, body \in UpdateBodies : UpdateSubscription(s, body)
    \/ \E s \in Subs : DeleteSubscription(s)

DeliverySpec == DeliveryInit /\ [][DeliveryNext]_vars

\* the delivery worker and the manual retry endpoint with the subscriptions
\* left alone: up to MaxRepeatedRetries retry requests are served
RepeatedRetryNext ==
    \/ \E j \in DOMAIN webhookQueue : RowsInSight(j) < MaxRows /\ DeliveryLoad(j)
    \/ \E j \in DOMAIN webhookQueue : DeliverySave(j)
    \/ \E j \in DOMAIN webhookQueue : DeliveryRetry(j)
    \/ \E logId \in RetryTargets :
          Len(retryCalls) < MaxRepeatedRetries /\ RetryLookup(logId)
    \/ \E k \in DOMAIN retryCalls : RetryEnqueue(k)

RepeatedRetrySpec == DeliveryInit /\ [][RepeatedRetryNext]_vars

\* the delivery worker over stores that change under it: a subscription
\* deactivated or deleted, the Event lost
FatalNext ==
    \/ \E j \in DOMAIN webhookQueue : RowsInSight(j) < MaxRows /\ DeliveryLoad(j)
    \/ \E j \in DOMAIN webhookQueue : DeliverySave(j)
    \/ \E j \in DOMAIN webhookQueue : DeliveryRetry(j)
    \/ \E s \in Subs, body \in UpdateBodies : UpdateSubscription(s, body)
    \/ \E s \in Subs : DeleteSubscription(s)
    \/ \E e \in events : EventLost(e)

FatalSpec == DeliveryInit /\ [][FatalNext]_vars

\* the delivery worker with subscription updates whose bodies may name any
\* field of the document
SecretNext ==
    \/ \E j \in DOMAIN webhookQueue : RowsInSight(j) < MaxRows /\ DeliveryLoad(j)
    \/ \E j \in DOMAIN webhookQueue : DeliverySave(j)
    \/ \E j \in DOMAIN webhookQueue : DeliveryRetry(j)
    \/ \E s \in Subs, body \in SecretUpdateBodies : UpdateSubscription(s, body)

SecretSpec == DeliveryInit /\ [][SecretNext]_vars

\* the state the pipeline is in when the router has fanned the job.created
\* Event of call 1 out to both subscriptions: call 1 answered 202, the routing
\* job completed, two delivery jobs waiting
WholeInit ==
    LET event == RoutedEvent("job.created")
    IN /\ events = {event}
       /\ subscriptions = [s \in Subs |-> InitialSubscription(s)]
       /\ updates = 0
       /\ deliveryLogs = [p \in Pairs |-> <<>>]
       /\ eventQueue = <<[RoutingJob(event) EXCEPT !.state = "completed"]>>
       /\ webhookQueue = [j \in {RouterJobId(event, s) : s \in Subs} |->
                             DeliveryJob(event, j[2])]
       /\ calls = [c \in CallIds |->
                      IF c = 1
                      THEN [pc |-> "done",
                            req |-> [eventType |-> event.eventType,
                                     sourceModule |-> "JOBS",
                                     payload |-> "p", idempotencyKey |-> "k1"],
                            event |-> event,
                            res |-> [status |-> 202, eventId |-> Uuid(1)],
                            alone |-> TRUE]
                      ELSE IdleCall]
       /\ \E status \in Responses : endpoint = [s \in Subs |-> status]
       /\ posts = [p \in Pairs |-> 0]
       /\ retryCalls = <<>>
       /\ signer = NoSigner

\* the HTTP requests served since the Event of call 1 was routed: receiveEvent
\* calls, retry requests and subscription updates
RequestsServed ==
    Cardinality({c \in CallIds \ {1} : calls[c].pc # "idle"})
        + Len(retryCalls) + updates

\* every component at once, from the state in which the Event of call 1 has
\* been routed: the ingestion gate, the router, the delivery worker, the manual
\* retry endpoint and the subscription CRUD surface; MaxWholeRequests requests
\* are served, and the jobs of a pair are followed until MaxWholeRows of its
\* rows are in sight
WholeNext ==
    \/ \E c \in CallIds : RequestsServed < MaxWholeRequests /\ ReceiveStart(c)
    \/ \E c \in CallIds : ReceiveSave(c)
    \/ \E c \in CallIds : ReceiveEnqueue(c)
    \/ \E r \in DOMAIN eventQueue : RouterFind(r)
    \/ \E r \in DOMAIN eventQueue : RouterEnqueue(r)
    \/ \E j \in DOMAIN webhookQueue : RowsInSight(j) < MaxWholeRows /\ DeliveryLoad(j)
    \/ \E j \in DOMAIN webhookQueue : DeliverySave(j)
    \/ \E j \in DOMAIN webhookQueue : DeliveryRetry(j)
    \/ \E logId \in RetryTargets :
          RequestsServed < MaxWholeRequests /\ RetryLookup(logId)
    \/ \E k \in DOMAIN retryCalls : RetryEnqueue(k)
    \/ \E s \in Subs, body \in UpdateBodies :
          RequestsServed < MaxWholeRequests /\ UpdateSubscription(s, body)
    \/ \E s \in Subs : RequestsServed < MaxWholeRequests /\ DeleteSubscription(s)

WholeSpec == WholeInit /\ [][WholeNext]_vars

\* the row an execution with deliveryAttempt below maxRetries leaves: the
\* signature threw, the row was saved failed, then retrying with its delay
RetriedRow(deliveryAttempt) ==
    [Attempted(NewDeliveryLog(deliveryAttempt), SignatureError, 0)
         EXCEPT !.status = "retrying", !.nextRetryAt = RetryDelay(deliveryAttempt)]

\* a job the queue has run WebhookAttempts times, each run leaving a retrying row
Exhausted(job) ==
    [job EXCEPT !.state = "failed", !.attemptsMade = WebhookAttempts,
                !.failedReason = "Delivery failed, will retry"]

\* the retry job made from the first row of attempt n - 1
ChainData(n) ==
    RetryJobData(<<<<1, "s2">>, WebhookAttempts * (n - 2) + 1>>, RetriedRow(n - 1))

\* the state after a candidate.applied Event was routed to s2, whose maxRetries
\* was set to m, and a chain of manual retries led to a job with deliveryAttempt
\* n <= m: every earlier job of the chain was run to exhaustion, then its first
\* row retried by hand; the n-th job waits
BackoffInit ==
    \E m \in MinMaxRetries..MaxMaxRetries : \E n \in 1..m :
        LET event == RoutedEvent("candidate.applied")
            chain == {RetryJobId(ChainData(t + 1), t) : t \in 1..(n - 1)}
        IN /\ events = {event}
           /\ subscriptions =
                 [t \in Subs |->
                     IF t = "s2" THEN [InitialSubscription(t) EXCEPT !.maxRetries = m]
                     ELSE InitialSubscription(t)]
           /\ updates = IF m = InitialSubscription("s2").maxRetries THEN 0 ELSE 1
           /\ deliveryLogs =
                 [p \in Pairs |->
                     IF p = <<1, "s2">>
                     THEN [k \in 1..(WebhookAttempts * (n - 1)) |->
                              RetriedRow(((k - 1) \div WebhookAttempts) + 1)]
                     ELSE <<>>]
           /\ eventQueue = <<[RoutingJob(event) EXCEPT !.state = "completed"]>>
           /\ webhookQueue =
                 [j \in {RouterJobId(event, "s2")} \cup chain |->
                     IF j = RouterJobId(event, "s2")
                     THEN IF n = 1 THEN DeliveryJob(event, "s2")
                          ELSE Exhausted(DeliveryJob(event, "s2"))
                     ELSE IF j[4] + 1 = n THEN RetryJob(ChainData(n))
                     ELSE Exhausted(RetryJob(ChainData(j[4] + 1)))]
           /\ calls = [c \in CallIds |->
                          IF c = 1
                          THEN [pc |-> "done",
                                req |-> [eventType |-> event.eventType,
                                         sourceModule |-> "JOBS",
                                         payload |-> "p", idempotencyKey |-> "k1"],
                                event |-> event,
                                res |-> [status |-> 202, eventId |-> Uuid(1)],
                                alone |-> TRUE]
                          ELSE IdleCall]
           /\ \E status \in Responses : endpoint = [t \in Subs |-> status]
           /\ posts = [p \in Pairs |-> 0]
           /\ retryCalls =
                 [k \in 1..(n - 1) |->
                     [logId |-> <<<<1, "s2">>, WebhookAttempts * (k - 1) + 1>>,
                      pc |-> "done", status |-> 200, error |-> "",
                      data |-> ChainData(k + 1)]]
           /\ signer = NoSigner

\* the delivery worker alone, on the jobs BackoffInit leaves
BackoffNext ==
    \/ \E j \in DOMAIN webhookQueue : DeliveryLoad(j)
    \/ \E j \in DOMAIN webhookQueue : DeliverySave(j)
    \/ \E j \in DOMAIN webhookQueue : DeliveryRetry(j)

BackoffSpec == BackoffInit /\ [][BackoffNext]_vars

\* ingestion and routing over a store that can lose an Event
LossNext ==
    \/ \E c \in CallIds : ReceiveStart(c)
    \/ \E c \in CallIds : ReceiveSave(c)
    \/ \E c \in CallIds : ReceiveEnqueue(c)
    \/ \E r \in DOMAIN eventQueue : RouterFind(r)
    \/ \E r \in DOMAIN eventQueue : RouterEnqueue(r)
    \/ \E e \in events : EventLost(e)

LossSpec == Init /\ [][LossNext]_vars

\* a routing job as the queue keeps it across executions: how often it was
\* found stalled, whether the execution in progress has passed its addBulk, and
\* the last reading of Date.now() an execution of it made (0: none)
TrackedRoutingJob(event) ==
    RoutingJob(event) @@ [stalledCounter |-> 0, added |-> FALSE, clock |-> 0]

\* jobId: `${event.eventId}-${subscription._id}-${Date.now()}`
RouterJobIdAt(event, s, now) == Append(RouterJobId(event, s), now)

\* Date.now() read by an execution of job: the first reading is 1; a later
\* execution reads the same millisecond or a later one
RouterClock(job) == IF job.clock = 0 THEN {1} ELSE {job.clock, job.clock + 1}

\* addBulk adding the jobs of only some of the subscriptions before the
\* processor goes on
RouterAddSome(r) ==
    /\ r \in DOMAIN eventQueue
    /\ eventQueue[r].state = "active"
    /\ ~eventQueue[r].added
    /\ LET job == eventQueue[r]
           event == EventFindById(job.data.eventId)
       IN \E now \in RouterClock(job), some \in SUBSET job.subscriptions :
             LET ids == {RouterJobIdAt(event, s, now) : s \in some}
             IN /\ webhookQueue' = [j \in DOMAIN webhookQueue \cup ids |->
                                       IF j \in DOMAIN webhookQueue
                                       THEN webhookQueue[j]
                                       ELSE DeliveryJob(event, j[2])]
                /\ eventQueue' = [eventQueue EXCEPT ![r].added = TRUE,
                                                    ![r].clock = now]
    /\ UNCHANGED <<events, subscriptions, deliveryLogs, calls,
                   endpoint, posts, updates, retryCalls, signer>>

\* the job list is built with Date.now() in every jobId, then
\* await webhookQueue.addBulk(jobs): all the jobs are added in one queue
\* operation; a job whose id is already in the queue is not added again
RouterAddBulk(r) ==
    /\ r \in DOMAIN eventQueue
    /\ eventQueue[r].state = "active"
    /\ ~eventQueue[r].added
    /\ LET job == eventQueue[r]
           event == EventFindById(job.data.eventId)
       IN \E now \in RouterClock(job) :
             LET ids == {RouterJobIdAt(event, s, now) : s \in job.subscriptions}
             IN /\ webhookQueue' = [j \in DOMAIN webhookQueue \cup ids |->
                                       IF j \in DOMAIN webhookQueue
                                       THEN webhookQueue[j]
                                       ELSE DeliveryJob(event, j[2])]
                /\ eventQueue' = [eventQueue EXCEPT ![r].added = TRUE,
                                                    ![r].clock = now]
    /\ UNCHANGED <<events, subscriptions, deliveryLogs, calls,
                   endpoint, posts, updates, retryCalls, signer>>

\* the processor returns its summary: the queue marks the job completed
RouterReturn(r) ==
    /\ r \in DOMAIN eventQueue
    /\ eventQueue[r].state = "active"
    /\ eventQueue[r].added
    /\ eventQueue' = [eventQueue EXCEPT ![r].state = "completed",
                                        ![r].subscriptions = {},
                                        ![r].added = FALSE]
    /\ UNCHANGED <<events, subscriptions, deliveryLogs, webhookQueue, calls,
                   endpoint, posts, updates, retryCalls, signer>>

\* the worker running the job stops (crash, or its lock expires): the queue
\* finds the job stalled and puts it back to wait, its processor's locals
\* gone; a job found stalled more than MaxStalledCount times is failed
RouterStalled(r) ==
    /\ r \in DOMAIN eventQueue
    /\ eventQueue[r].state = "active"
    /\ eventQueue' = [eventQueue EXCEPT ![r] =
           IF eventQueue[r].stalledCounter < MaxStalledCount
           THEN [@ EXCEPT !.state = "waiting", !.subscriptions = {},
                          !.added = FALSE, !.stalledCounter = @ + 1]
           ELSE [@ EXCEPT !.state = "failed", !.subscriptions = {},
                          !.added = FALSE,
                          !.failedReason = "job stalled more than allowable limit"]]
    /\ UNCHANGED <<events, subscriptions, deliveryLogs, webhookQueue, calls,
                   endpoint, posts, updates, retryCalls, signer>>

\* the state after call 1 was answered 202 for a job.created Event, which both
\* subscriptions list: the Event stored, its routing job waiting
RerunInit ==
    LET event == RoutedEvent("job.created")
    IN /\ events = {event}
       /\ subscriptions = [s \in Subs |-> InitialSubscription(s)]
       /\ deliveryLogs = [p \in Pairs |-> <<>>]
       /\ eventQueue = <<TrackedRoutingJob(event)>>
       /\ webhookQueue = <<>>
       /\ calls = [c \in CallIds |->
                      IF c = 1
                      THEN [pc |-> "done",
                            req |-> [eventType |-> event.eventType,
                                     sourceModule |-> "JOBS",
                                     payload |-> "p", idempotencyKey |-> "k1"],
                            event |-> event,
                            res |-> [status |-> 202, eventId |-> Uuid(1)],
                            alone |-> TRUE]
                      ELSE IdleCall]
       /\ \E status \in Responses : endpoint = [s \in Subs |-> status]
       /\ posts = [p \in Pairs |-> 0]
       /\ updates = 0
       /\ retryCalls = <<>>
       /\ signer = NoSigner

\* the router with the executions the queue may repeat, and the subscription
\* CRUD surface
RerunNext ==
    \/ \E r \in DOMAIN eventQueue : RouterFind(r)
    \/ \E r \in DOMAIN eventQueue : RouterAddBulk(r)
    \/ \E r \in DOMAIN eventQueue : RouterReturn(r)
    \/ \E r \in DOMAIN eventQueue : RouterStalled(r)
    \/ \E s \in Subs, body \in UpdateBodies : UpdateSubscription(s, body)
    \/ \E s \in Subs : DeleteSubscription(s)

RerunSpec == RerunInit /\ [][RerunNext]_vars

\* eventQueue.add adding the job and rejecting all the same
ReceiveEnqueueAddedThenFails(c) ==
    /\ calls[c].pc = "enqueue"
    /\ eventQueue' = Append(eventQueue, RoutingJob(calls[c].event))
    /\ Respond(c, 500, NoEventId)
    /\ UNCHANGED <<events, subscriptions, deliveryLogs, webhookQueue,
                   endpoint, posts, updates, retryCalls, signer>>

\* await eventQueue.add(...) rejects (the queue's Redis cannot be reached):
\* nothing is added, and the catch block answers 500 to an error that is
\* neither a ValidationError nor a duplicate key
ReceiveEnqueueFails(c) ==
    /\ calls[c].pc = "enqueue"
    /\ Respond(c, 500, NoEventId)
    /\ UNCHANGED <<events, subscriptions, deliveryLogs, eventQueue, webhookQueue,
                   endpoint, posts, updates, retryCalls, signer>>

\* ingestion and routing with a queue that may refuse the routing job
EnqueueFailNext ==
    \/ \E c \in CallIds : ReceiveStart(c)
    \/ \E c \in CallIds : ReceiveSave(c)
    \/ \E c \in CallIds : ReceiveEnqueue(c)
    \/ \E c \in CallIds : ReceiveEnqueueFails(c)
    \/ \E r \in DOMAIN eventQueue : RouterFind(r)
    \/ \E r \in DOMAIN eventQueue : RouterEnqueue(r)
    \/ \E s \in Subs, body \in UpdateBodies : UpdateSubscription(s, body)
    \/ \E s \in Subs : DeleteSubscription(s)

EnqueueFailSpec == Init /\ [][EnqueueFailNext]_vars

\* the delivery worker kept running: the queue hands every waiting job, and
\* every delayed job once its delay has passed, to the processor, and every
\* await of the processor returns
BackoffFairSpec == BackoffSpec /\ WF_vars(BackoffNext)

\* HMACService used on its own, the pipeline at rest
SignerSpec == Init /\ [][SignerNext]_vars

\* HMACService signing pairs of payloads, the pipeline at rest
BothSpec == Init /\ [][SignBoth]_vars

-----------------------------------------------------------------------------
(* Vocabulary of the properties *)

JobPair(job) == <<job.data.eventId, job.data.subscriptionId>>

\* the queue will not run the job again
Final(job) == job.state \in {"completed", "failed"}

AttemptsOf(rows) == [i \in 1..Len(rows) |-> rows[i].deliveryAttempt]

StatusesOf(rows) == [i \in 1..Len(rows) |-> rows[i].status]

FatalReasons == {"Event not found", "Subscription not found", "Subscription is inactive"}

Quiescent ==
    /\ \A c \in CallIds : calls[c].pc \in {"idle", "done"}
    /\ \A r \in DOMAIN eventQueue : Final(eventQueue[r])
    /\ \A j \in DOMAIN webhookQueue : Final(webhookQueue[j])

EventsWithKey(key) == {e \in events : e.idempotencyKey = key}

RoutingJobsFor(id) == {r \in DOMAIN eventQueue : eventQueue[r].data.eventId = id}

Done(c) == calls[c].pc = "done"

-----------------------------------------------------------------------------
(* Delivery and retry *)

\* C1: with maxRetries = 3 and an endpoint that answers 500 to every request,
\* a router-enqueued delivery job that the queue has finished with has left
\* DeliveryLog rows with deliveryAttempt 1, 2, 3 in that order, with statuses
\* retrying, retrying, failed, and no fourth row.
C1_RetrySequence ==
    \A j \in DOMAIN webhookQueue :
        LET job == webhookQueue[j]
            s == job.data.subscriptionId
            rows == deliveryLogs[JobPair(job)]
        IN (/\ updates = 0
            /\ job.origin = "router"
            /\ Final(job)
            /\ subscriptions[s].maxRetries = 3
            /\ endpoint[s] = 500)
           => /\ AttemptsOf(rows) = <<1, 2, 3>>
              /\ StatusesOf(rows) = <<"retrying", "retrying", "failed">>

\* C2: once an undelivered attempt with deliveryAttempt >= maxRetries has been
\* recorded (the worker threw "after max attempts"), the row is persisted with
\* status failed and the job is not rescheduled: it is in the failed set.
C2_ExhaustedNotRescheduled ==
    \A j \in DOMAIN webhookQueue :
        LET job == webhookQueue[j]
            rows == deliveryLogs[JobPair(job)]
        IN job.failedReason = "Delivery failed after max attempts"
           => /\ Len(rows) > 0
              /\ rows[Len(rows)].status = "failed"
              /\ job.state = "failed"

\* C3: a delivery job that hit a missing Event, a missing Subscription or an
\* inactive Subscription has failed permanently: the queue holds it in the
\* failed set and never runs it again.
C3_FatalNotRetried ==
    \A j \in DOMAIN webhookQueue :
        webhookQueue[j].failedReason \in FatalReasons
        => webhookQueue[j].state = "failed"

\* C4: one job.created event ingested, exactly one active subscription
\* matching it (and routed to), its endpoint answering 200: when the pipeline
\* has come to rest there is exactly one DeliveryLog for the event, with
\* status success, responseStatus 200 and hmacVerified true.
C4_EndToEnd ==
    \A e \in events : \A s \in Subs :
        (/\ Quiescent
         /\ events = {e}
         /\ e.eventType = "job.created"
         /\ RoutingJobsFor(e._id) # {}
         /\ MatchingSubscriptions("job.created") = {s}
         /\ DOMAIN webhookQueue = {<<e._id, s>>}
         /\ endpoint[s] = 200)
        => LET rows == deliveryLogs[<<e._id, s>>]
           IN /\ Len(rows) = 1
              /\ rows[1].status = "success"
              /\ rows[1].responseStatus = 200
              /\ rows[1].hmacVerified

-----------------------------------------------------------------------------
(* Ingestion *)

C6_RaceConverges ==
    \A c \in CallIds : \A e \in events :
        (/\ Done(c)
         /\ calls[c].req \in ValidRequests
         /\ e.idempotencyKey = calls[c].req.idempotencyKey)
        => /\ calls[c].res.status \in {200, 202}
           /\ calls[c].res.eventId = e.eventId

\* C7: the Event store never holds two Events with the same idempotencyKey,
\* and it holds one for every key for which a call has answered 200 or 202.
C7_OneEventPerKey ==
    /\ \A e1, e2 \in events : e1.idempotencyKey = e2.idempotencyKey => e1 = e2
    /\ \A c \in CallIds :
          calls[c].res.status \in {200, 202}
          => Cardinality(EventsWithKey(calls[c].req.idempotencyKey)) = 1

\* two calls with the same key both passed the lookup; one insert won
C7_Witness ==
    \E c, d \in CallIds :
        /\ c # d
        /\ calls[c].req.idempotencyKey = calls[d].req.idempotencyKey
        /\ calls[c].res.status = 202
        /\ calls[d].res.status = 409
        /\ Cardinality(EventsWithKey(calls[c].req.idempotencyKey)) = 1

InvalidInput(req) ==
    \/ req.eventType = "" \/ req.sourceModule = ""
    \/ req.payload = "" \/ req.idempotencyKey = ""
    \/ req.eventType \notin EventTypeEnum
    \/ req.sourceModule \notin SourceModuleEnum

\* C9: a finished call answers 400 (and no eventId) when its request fails
\* validation; a valid request made on its own answers 202 or 200.
C9_StatusByRequest ==
    \A c \in CallIds :
        Done(c) =>
            IF InvalidInput(calls[c].req)
            THEN calls[c].res = [status |-> 400, eventId |-> NoEventId]
            ELSE calls[c].alone => calls[c].res.status \in {200, 202}

-----------------------------------------------------------------------------
(* Routing *)

\* C10: an execution of the routing job for an event of type T holds exactly
\* the subscriptions that are active and whose eventTypes contains T when it
\* queries the store, and its addBulk adds exactly one delivery job for each of
\* them, with deliveryAttempt 1, and no other job.
C10_FanOut ==
    [][\A r \in DOMAIN eventQueue :
          LET job == eventQueue[r]
              e == job.data.eventId
              T == job.data.eventType
              added == DOMAIN webhookQueue' \ DOMAIN webhookQueue
          IN /\ (job.state # "active" /\ eventQueue'[r].state = "active")
                => eventQueue'[r].subscriptions =
                      {s \in Subs : /\ s \in DOMAIN subscriptions
                                    /\ subscriptions[s].isActive
                                    /\ T \in subscriptions[s].eventTypes}
             /\ (job.state = "active" /\ eventQueue'[r].state # "active")
                => /\ eventQueue'[r].state = "completed"
                   /\ added = {<<e, s>> : s \in job.subscriptions}
                   /\ \A j \in added :
                         /\ webhookQueue'[j].data =
                               [eventId |-> e, subscriptionId |-> j[2],
                                deliveryAttempt |-> 1]
                         /\ webhookQueue'[j].state = "waiting"
                   /\ \A j \in DOMAIN webhookQueue :
                         webhookQueue'[j] = webhookQueue[j]
      ]_vars

\* a routed candidate.applied event: s2 matched, s1 (job.created only) did not
C10_Witness ==
    \E r \in DOMAIN eventQueue :
        /\ eventQueue[r].state = "completed"
        /\ eventQueue[r].data.eventType = "candidate.applied"
        /\ <<eventQueue[r].data.eventId, "s2">> \in DOMAIN webhookQueue
        /\ <<eventQueue[r].data.eventId, "s1">> \notin DOMAIN webhookQueue

-----------------------------------------------------------------------------
(* Delivery outcomes and manual retry *)

RowsOf(pair) == 1..Len(deliveryLogs[pair])

\* C11: with the subscription untouched and its endpoint answering a status
\* below 500 (200 or 404), every DeliveryLog row of a first attempt has status
\* success and that responseStatus, and a job carrying deliveryAttempt 1 is
\* never scheduled for a retry.
C11_Below500IsSuccess ==
    /\ \A p \in Pairs : \A i \in RowsOf(p) :
          LET row == deliveryLogs[p][i]
          IN (/\ updates = 0
              /\ row.deliveryAttempt = 1
              /\ endpoint[p[2]] < 500)
             => /\ row.status = "success"
                /\ row.responseStatus = endpoint[p[2]]
    /\ \A j \in DOMAIN webhookQueue :
          LET job == webhookQueue[j]
          IN (/\ updates = 0
              /\ job.data.deliveryAttempt = 1
              /\ endpoint[job.data.subscriptionId] < 500)
             => job.state # "delayed"

\* the retry request handled by this step, if any
NewRetryCalls == DOMAIN retryCalls' \ DOMAIN retryCalls

\* C13: a retry request for a stored DeliveryLog whose subscription is inactive,
\* or whose deliveryAttempt is at or above the subscription's maxRetries, is
\* answered 400 at once, and the step changes neither the webhook-delivery
\* queue nor any store; a request answered 400 never enqueues afterwards.
C13_RetryGate ==
    [][/\ \A k \in NewRetryCalls :
             LET call == retryCalls'[k]
                 p == call.logId[1]
                 i == call.logId[2]
             IN (/\ p \in Pairs
                 /\ i \in RowsOf(p)
                 /\ p[2] \in DOMAIN subscriptions
                 /\ \/ ~subscriptions[p[2]].isActive
                    \/ deliveryLogs[p][i].deliveryAttempt >= subscriptions[p[2]].maxRetries)
                => /\ call.status = 400
                   /\ call.pc = "done"
                   /\ webhookQueue' = webhookQueue
                   /\ UNCHANGED <<events, subscriptions, deliveryLogs, eventQueue>>
       /\ \A k \in DOMAIN retryCalls :
             retryCalls[k].status = 400 => retryCalls'[k] = retryCalls[k]
      ]_vars

\* a request for a row of a subscription deactivated since the delivery was
\* rejected, and the queue holds no job besides the router's
C13_Witness ==
    \E k \in DOMAIN retryCalls :
        /\ retryCalls[k].status = 400
        /\ retryCalls[k].error = "Cannot retry - subscription is inactive"
        /\ retryCalls[k].logId \in LogIds
        /\ \A j \in DOMAIN webhookQueue : webhookQueue[j].origin = "router"

\* C14: a delivery job carrying deliveryAttempt n > 1 is only ever enqueued
\* when a DeliveryLog row of attempt n - 1 for the same (event, subscription)
\* is already stored with its outcome; and the queue only ever reschedules a
\* job whose execution attempted a delivery after that execution's row has
\* been stored with its outcome.
C14_OutcomeBeforeNextAttempt ==
    [][\A j \in DOMAIN webhookQueue' :
          LET after == webhookQueue'[j]
              p == JobPair(after)
              n == after.data.deliveryAttempt
          IN /\ (j \notin DOMAIN webhookQueue /\ n > 1)
                => \E i \in RowsOf(p) :
                      /\ deliveryLogs[p][i].deliveryAttempt = n - 1
                      /\ deliveryLogs[p][i].status \in {"success", "failed", "retrying"}
             /\ (/\ j \in DOMAIN webhookQueue
                 /\ webhookQueue[j].state = "active"
                 /\ after.state = "delayed")
                => /\ webhookQueue[j].logIdx \in RowsOf(p)
                   /\ deliveryLogs[p][webhookQueue[j].logIdx].deliveryAttempt = n
                   /\ deliveryLogs[p][webhookQueue[j].logIdx].status = "failed"
      ]_vars

\* a manual retry job of attempt 2 is queued while the router's job, whose
\* first execution stored the attempt-1 row, waits for its rescheduled run
C14_Witness ==
    \E j, r \in DOMAIN webhookQueue :
        /\ webhookQueue[j].origin = "manual"
        /\ webhookQueue[j].data.deliveryAttempt = 2
        /\ webhookQueue[r].origin = "router"
        /\ webhookQueue[r].state = "delayed"
        /\ JobPair(webhookQueue[r]) = JobPair(webhookQueue[j])
        /\ \E i \in RowsOf(JobPair(webhookQueue[j])) :
              deliveryLogs[JobPair(webhookQueue[j])][i].deliveryAttempt = 1

\* C17: no two DeliveryLog rows of the same (event, subscription) pair carry
\* the same deliveryAttempt.
C17_AttemptNumbersDistinct ==
    \A p \in Pairs : \A i, k \in RowsOf(p) :
        i # k => deliveryLogs[p][i].deliveryAttempt # deliveryLogs[p][k].deliveryAttempt

\* C19: when the queue gives up on a delivery job (its last execution ends and
\* the job moves to the failed set), the DeliveryLog row that execution wrote
\* is not left in status retrying.
C19_RetryingIsFollowed ==
    [][\A j \in DOMAIN webhookQueue :
          (/\ webhookQueue[j].state = "active"
           /\ webhookQueue'[j].state = "failed")
          => deliveryLogs'[JobPair(webhookQueue[j])][webhookQueue[j].logIdx].status
                # "retrying"
      ]_vars

\* the delays the retry schedule names: 1000 ms after attempt 1, doubling, and
\* 30000 ms from attempt 6 on
ClaimedDelay(n) ==
    IF n >= 6 THEN 30000 ELSE <<1000, 2000, 4000, 8000, 16000>>[n]

\* the job with the highest deliveryAttempt of its pair: the one last enqueued
LastOfChain(j) ==
    \A k \in DOMAIN webhookQueue :
        JobPair(webhookQueue[k]) = JobPair(webhookQueue[j])
        => webhookQueue[k].data.deliveryAttempt <= webhookQueue[j].data.deliveryAttempt

-----------------------------------------------------------------------------
(* Signatures *)

\* C15: the signature of a payload equals the signature, under the same
\* secret, of every payload with the same logical content whatever the order
\* in which its properties were inserted, at the top level and in nested
\* objects, and equals the signature of a repeated call.
C15_OrderIndependent ==
    signer.pc # "idle"
    => /\ signer.signature = signer.otherSignature
       /\ signer.signature = signer.again
       /\ signer.signature # SignatureError

\* the two payloads list both their top-level and their nested properties in
\* different orders
C15_Witness ==
    /\ signer.pc = "signed"
    /\ ObjectKeys(signer.payload) = <<"b", "a">>
    /\ ObjectKeys(signer.other) = <<"a", "b">>
    /\ IsObject(Get(signer.payload, "b"))
    /\ ObjectKeys(Get(signer.payload, "b")) = <<"c", "a">>
    /\ ObjectKeys(Get(signer.other, "b")) = <<"a", "c">>

\* C16: verifySignature answers true for the signature generateSignature
\* produced, and false for every text that differs from it in exactly one
\* character (another digit, a letter in the other case, a non-hex character)
\* and for a signature produced with another secret.
C16_VerifyExact ==
    signer.pc = "verified" => (signer.valid <=> signer.kind = "produced")

-----------------------------------------------------------------------------
(* Worker backoff against queue backoff *)

\* C21: whenever an execution leaves its DeliveryLog row in status retrying and
\* the queue reschedules the job, the delay recorded in the row's nextRetryAt
\* equals the delay after which the queue runs the job again.
C21_RecordedDelayIsQueueDelay ==
    [][\A j \in DOMAIN webhookQueue :
          LET before == webhookQueue[j]
              p == JobPair(before)
          IN (/\ before.pc = "retry"
              /\ webhookQueue'[j].state = "delayed"
              /\ deliveryLogs'[p][before.logIdx].status = "retrying")
             => deliveryLogs'[p][before.logIdx].nextRetryAt = webhookQueue'[j].delay
      ]_vars

\* C22: the step in which an execution builds its DeliveryLog and goes on to
\* sign and POST stores a row of that attempt with status pending, so that no
\* POST is ever counted for a pair that has no stored row.
C22_PendingRowBeforePost ==
    [][\A j \in DOMAIN webhookQueue :
          LET p == JobPair(webhookQueue[j])
          IN /\ (webhookQueue[j].pc = "" /\ webhookQueue'[j].pc = "save")
                => /\ Len(deliveryLogs'[p]) = Len(deliveryLogs[p]) + 1
                   /\ deliveryLogs'[p][Len(deliveryLogs'[p])].status = "pending"
                   /\ deliveryLogs'[p][Len(deliveryLogs'[p])].deliveryAttempt
                         = webhookQueue[j].data.deliveryAttempt
             /\ posts'[p] > 0 => Len(deliveryLogs'[p]) > 0
      ]_vars

-----------------------------------------------------------------------------
(* Routing: failures, repeated executions, fan-out *)

\* C23: a routing job that found its Event missing is in the failed set (the
\* queue will not execute it again), and no delivery job exists for its event.
C23_MissingEventFatal ==
    \A r \in DOMAIN eventQueue :
        eventQueue[r].failedReason = "Event not found"
        => /\ eventQueue[r].state = "failed"
           /\ \A j \in DOMAIN webhookQueue :
                 webhookQueue[j].data.eventId # eventQueue[r].data.eventId

\* the attempt-1 delivery jobs enqueued for a pair
FirstAttemptJobs(eventId, s) ==
    {j \in DOMAIN webhookQueue :
        /\ webhookQueue[j].data.eventId = eventId
        /\ webhookQueue[j].data.subscriptionId = s
        /\ webhookQueue[j].data.deliveryAttempt = 1}

\* C24: however often the queue executes the routing job of an event, at most
\* one attempt-1 delivery job is in the webhook-delivery queue for each
\* (event, subscription) pair.
C24_OneFirstJobPerPair ==
    \A e \in events : \A s \in Subs :
        Cardinality(FirstAttemptJobs(e._id, s)) <= 1

\* the subscriptions of S that have an attempt-1 delivery job for the event
\* in queue q
Served(q, eventId, S) ==
    {s \in S : \E j \in DOMAIN q :
        /\ q[j].data.eventId = eventId
        /\ q[j].data.subscriptionId = s
        /\ q[j].data.deliveryAttempt = 1}

\* C25: of the subscriptions an execution of the router matched, the ones that
\* have a delivery job for the event change in no step except to all of them
\* at once, whether the execution goes on or the router stops; and when the
\* execution returns every one of them has a delivery job.
C25_AtomicBatch ==
    [][\A r \in DOMAIN eventQueue :
          LET job == eventQueue[r]
              matched == job.subscriptions
              before == Served(webhookQueue, job.data.eventId, matched)
              after == Served(webhookQueue', job.data.eventId, matched)
          IN job.state = "active"
             => /\ after = before \/ after = matched
                /\ eventQueue'[r].state = "completed" => after = matched
      ]_vars

\* an execution that matched both subscriptions has added both delivery jobs
\* and has not returned yet: the router may still stop here
C25_Witness ==
    \E r \in DOMAIN eventQueue :
        /\ eventQueue[r].state = "active"
        /\ eventQueue[r].added
        /\ eventQueue[r].subscriptions = {"s1", "s2"}
        /\ eventQueue[r].stalledCounter = 0
        /\ Served(webhookQueue, eventQueue[r].data.eventId, {"s1", "s2"}) = {"s1", "s2"}

-----------------------------------------------------------------------------
(* Ingestion gate: enqueue failure and the 202 answer *)

\* call c inserted its Event and was refused by the queue
EnqueueFailed(c) == calls[c].pc = "done" /\ calls[c].res.status = 500

\* C26: once the enqueue of a call has failed after its Event was inserted,
\* the Event stays in the store, no routing job and no delivery job ever exists
\* for it, and every other call with the same idempotencyKey that is answered
\* 200 returns the stored Event's eventId; none is answered 202.
C26_StoredButUnrouted ==
    \A c \in CallIds :
        EnqueueFailed(c)
        => /\ calls[c].event \in events
           /\ RoutingJobsFor(calls[c].event._id) = {}
           /\ \A j \in DOMAIN webhookQueue :
                 webhookQueue[j].data.eventId # calls[c].event._id
           /\ \A d \in CallIds \ {c} :
                 (/\ Done(d)
                  /\ calls[d].req.idempotencyKey = calls[c].req.idempotencyKey)
                 => /\ calls[d].res.status # 202
                    /\ calls[d].res.status = 200
                          => calls[d].res.eventId = calls[c].event.eventId

\* the enqueue of call 1 failed, and call 2, sent afterwards with the same
\* key, was answered 200 with the eventId of the stored Event
C26_Witness ==
    /\ EnqueueFailed(1)
    /\ Done(2)
    /\ calls[2].req.idempotencyKey = calls[1].req.idempotencyKey
    /\ calls[2].res.status = 200
    /\ calls[2].res.eventId = calls[1].event.eventId
    /\ eventQueue = <<>>

\* C27: in every state where a call has been answered 202, its Event is in the
\* store and a routing job for it has been added to the event-processing queue
\* (whether or not the router has run it yet).
C27_AcceptedMeansStoredAndQueued ==
    \A c \in CallIds :
        (Done(c) /\ calls[c].res.status = 202)
        => /\ calls[c].event \in events
           /\ calls[c].res.eventId = calls[c].event.eventId
           /\ RoutingJobsFor(calls[c].event._id) # {}

\* call 1 has its 202 while its routing job still waits: nothing was routed or
\* delivered before the answer
C27_Witness ==
    /\ Done(1)
    /\ calls[1].res.status = 202
    /\ \E r \in RoutingJobsFor(calls[1].event._id) :
          eventQueue[r].state = "waiting" /\ eventQueue[r].attemptsMade = 0
    /\ webhookQueue = <<>>

-----------------------------------------------------------------------------
(* Manual retry: the attempt number of the job enqueued *)

\* the highest deliveryAttempt among the stored rows of a pair
LastAttempt(p) ==
    CHOOSE n \in {deliveryLogs[p][i].deliveryAttempt : i \in RowsOf(p)} :
        \A i \in RowsOf(p) : deliveryLogs[p][i].deliveryAttempt <= n

\* C28: the step in which an accepted retry request enqueues adds exactly one
\* job to the webhook-delivery queue, and the job's deliveryAttempt is one more
\* than the highest deliveryAttempt recorded for its (event, subscription) pair.
C28_RetryIsLastPlusOne ==
    [][\A k \in DOMAIN retryCalls :
          (retryCalls[k].pc = "enqueue" /\ retryCalls'[k].pc = "done")
          => LET new == DOMAIN webhookQueue' \ DOMAIN webhookQueue
             IN /\ Cardinality(new) = 1
                /\ \A j \in new :
                      /\ JobPair(webhookQueue'[j]) = retryCalls[k].logId[1]
                      /\ webhookQueue'[j].data.deliveryAttempt
                            = LastAttempt(retryCalls[k].logId[1]) + 1
      ]_vars

-----------------------------------------------------------------------------
(* Fatal conditions of the delivery worker *)

\* the stores as the processor of job would find them now: a fatal condition
FatalFor(job) ==
    \/ EventFindById(job.data.eventId) = NoEvent
    \/ job.data.subscriptionId \notin DOMAIN subscriptions
    \/ ~subscriptions[job.data.subscriptionId].isActive

\* C29: an execution that starts while the Event is missing, or the
\* Subscription is missing or inactive, ends in the same step with a fatal
\* reason, and that step stores no DeliveryLog row and issues no POST; so every
\* row stored or POST issued comes from an execution that loaded an active
\* subscription and an existing Event.
C29_FatalWritesNothing ==
    [][/\ \A j \in DOMAIN webhookQueue :
             (/\ webhookQueue[j].state \in {"waiting", "delayed"}
              /\ webhookQueue'[j] # webhookQueue[j]
              /\ FatalFor(webhookQueue[j]))
             => /\ webhookQueue'[j].failedReason \in FatalReasons
                /\ webhookQueue'[j].pc = ""
                /\ webhookQueue'[j].state # "active"
                /\ deliveryLogs' = deliveryLogs
                /\ posts' = posts
       /\ (deliveryLogs' # deliveryLogs \/ posts' # posts)
             => \E j \in DOMAIN webhookQueue :
                   LET job == IF webhookQueue[j].pc = "" THEN webhookQueue'[j]
                              ELSE webhookQueue[j]
                   IN /\ job.pc \in {"save", "retry"}
                      /\ job.subscription.isActive
                      /\ job.event # NoEvent
      ]_vars

\* the job ran once and left a row; its subscription was then deactivated; the
\* next execution failed on it and the pair still has that one row
C29_Witness ==
    \E j \in DOMAIN webhookQueue :
        /\ webhookQueue[j].failedReason = "Subscription is inactive"
        /\ webhookQueue[j].attemptsMade = 2
        /\ Len(deliveryLogs[JobPair(webhookQueue[j])]) = 1
        /\ posts[JobPair(webhookQueue[j])] = 0

-----------------------------------------------------------------------------
(* Range of the attempt number *)

\* C30: with maxRetries of every subscription left as it was at the first
\* attempt, every stored DeliveryLog row, and every delivery job enqueued, of a
\* subscription that still exists carries a deliveryAttempt from 1 to that
\* subscription's maxRetries.
C30_AttemptWithinMaxRetries ==
    /\ \A p \in Pairs : \A i \in RowsOf(p) :
          p[2] \in DOMAIN subscriptions
          => /\ deliveryLogs[p][i].deliveryAttempt >= 1
             /\ deliveryLogs[p][i].deliveryAttempt <= subscriptions[p[2]].maxRetries
    /\ \A j \in DOMAIN webhookQueue :
          webhookQueue[j].data.subscriptionId \in DOMAIN subscriptions
          => /\ webhookQueue[j].data.deliveryAttempt >= 1
             /\ webhookQueue[j].data.deliveryAttempt
                   <= subscriptions[webhookQueue[j].data.subscriptionId].maxRetries

\* two manual retries in a row have taken a delivery to s1 to its third and
\* last attempt, whose row is stored
C30_Witness ==
    /\ Len(retryCalls) = 2
    /\ \A k \in DOMAIN retryCalls : retryCalls[k].status = 200
    /\ \E i \in RowsOf(<<1, "s1">>) :
          deliveryLogs[<<1, "s1">>][i].deliveryAttempt = subscriptions["s1"].maxRetries
    /\ \E i \in RowsOf(<<1, "s1">>) : deliveryLogs[<<1, "s1">>][i].deliveryAttempt = 1

-----------------------------------------------------------------------------
(* Fields of a stored DeliveryLog *)

\* C31: in every stored DeliveryLog row hmacVerified is true exactly when the
\* status is success, deliveredAt is set exactly when the status is success,
\* and nextRetryAt is set only when the status is retrying.
C31_FieldsFollowStatus ==
    \A p \in Pairs : \A i \in RowsOf(p) :
        LET row == deliveryLogs[p][i]
        IN /\ row.hmacVerified <=> row.status = "success"
           /\ row.deliveredAt <=> row.status = "success"
           /\ row.nextRetryAt # 0 => row.status = "retrying"

\* a pair has a row left retrying with its nextRetryAt and a later row stored
\* failed and not yet marked, neither verified nor delivered
C31_Witness ==
    \E p \in Pairs : \E i, k \in RowsOf(p) :
        /\ deliveryLogs[p][i].status = "retrying"
        /\ deliveryLogs[p][i].nextRetryAt # 0
        /\ deliveryLogs[p][k].status = "failed"
        /\ deliveryLogs[p][k].nextRetryAt = 0
        /\ ~deliveryLogs[p][k].hmacVerified
        /\ ~deliveryLogs[p][k].deliveredAt

\* the execution of job j in progress saved row i of pair p and has not ended
Owns(j, p, i) ==
    /\ webhookQueue[j].pc = "retry"
    /\ JobPair(webhookQueue[j]) = p
    /\ webhookQueue[j].logIdx = i

\* C32: a stored DeliveryLog row is never removed, and a step changes it only
\* if it is taken by the one execution that saved the row and is still in
\* progress; no row has two such executions, so once its execution has ended
\* the row stays as it is, whatever other executions and retry requests do.
C32_RowWrittenByItsExecution ==
    [][\A p \in Pairs : \A i \in RowsOf(p) :
          /\ i <= Len(deliveryLogs'[p])
          /\ \A j, k \in DOMAIN webhookQueue :
                (Owns(j, p, i) /\ Owns(k, p, i)) => j = k
          /\ deliveryLogs'[p][i] # deliveryLogs[p][i]
                => \E j \in DOMAIN webhookQueue :
                      /\ Owns(j, p, i)
                      /\ webhookQueue'[j] # webhookQueue[j]
      ]_vars

\* two jobs of the same pair, the router's and a manual retry's, are both
\* between their two saves, each on its own row, while an earlier row of the
\* pair, whose execution has ended, is stored retrying
C32_Witness ==
    \E j, k \in DOMAIN webhookQueue :
        LET p == JobPair(webhookQueue[j])
        IN /\ j # k
           /\ JobPair(webhookQueue[k]) = p
           /\ webhookQueue[j].pc = "retry"
           /\ webhookQueue[k].pc = "retry"
           /\ webhookQueue[j].logIdx # webhookQueue[k].logIdx
           /\ \E i \in RowsOf(p) :
                 /\ deliveryLogs[p][i].status = "retrying"
                 /\ ~Owns(j, p, i)
                 /\ ~Owns(k, p, i)

-----------------------------------------------------------------------------
(* Who writes which collection *)

\* C34: a step that changes the Event collection is the save of a receiveEvent
\* call and only adds that call's document (no Event is changed or removed); a
\* step that changes the Subscription collection is a request to the CRUD
\* surface; a step that changes the DeliveryLog collection is a save of a
\* delivery job's execution; and no step of the router, the delivery worker or
\* the retry endpoint changes Events or Subscriptions.
C34_OneWriterPerCollection ==
    [][/\ events \subseteq events'
       /\ events' # events
             => \E c \in CallIds :
                   /\ calls[c].pc = "save"
                   /\ calls'[c].pc = "enqueue"
                   /\ events' = events \cup {calls[c].event}
       /\ subscriptions' # subscriptions
             => /\ updates' = updates + 1
                /\ UNCHANGED <<events, deliveryLogs, eventQueue, webhookQueue,
                               calls, retryCalls>>
       /\ deliveryLogs' # deliveryLogs
             => /\ \E j \in DOMAIN webhookQueue :
                      /\ webhookQueue[j].pc \in {"save", "retry"}
                      /\ webhookQueue'[j] # webhookQueue[j]
                /\ UNCHANGED <<events, subscriptions, eventQueue, calls, retryCalls>>
       /\ (eventQueue' # eventQueue \/ webhookQueue' # webhookQueue
              \/ retryCalls' # retryCalls)
             => UNCHANGED <<events, subscriptions>>
      ]_vars

\* a second Event has been inserted and routed, an execution has stored a row
\* and left it retrying, and a retry request for a row has been accepted
C34_Witness ==
    /\ Cardinality(events) = 2
    /\ Len(eventQueue) = 2
    /\ eventQueue[2].state = "completed"
    /\ \E k \in DOMAIN retryCalls : retryCalls[k].status = 200
    /\ \E p \in Pairs : \E i \in RowsOf(p) : deliveryLogs[p][i].status = "retrying"

-----------------------------------------------------------------------------
(* Termination of delivery jobs *)

AllJobsFinal == \A j \in DOMAIN webhookQueue : Final(webhookQueue[j])

\* C33: no delivery job is ever executed more than WebhookAttempts times, and
\* with the worker running every delivery job, enqueued by the router or by a
\* manual retry, reaches a final state (completed, or failed with no execution
\* scheduled) and stays there, whatever the endpoint answers.
C33_JobsTerminate ==
    /\ [](\A j \in DOMAIN webhookQueue :
             webhookQueue[j].attemptsMade <= WebhookAttempts)
    /\ <>[]AllJobsFinal

\* a manual retry job has been run WebhookAttempts times and is in the failed
\* set, as is the router's job before it
C33_Witness ==
    /\ AllJobsFinal
    /\ \E j \in DOMAIN webhookQueue :
          /\ webhookQueue[j].origin = "manual"
          /\ webhookQueue[j].state = "failed"
          /\ webhookQueue[j].attemptsMade = WebhookAttempts
          /\ webhookQueue[j].failedReason = "Delivery failed after max attempts"

-----------------------------------------------------------------------------
(* The stored secret *)

\* C35: every stored subscription keeps the secret createSubscription gave it,
\* whatever update requests have been served.
C35_SecretSetOnce ==
    \A s \in DOMAIN subscriptions :
        subscriptions[s].secret = InitialSubscription(s).secret

-----------------------------------------------------------------------------
(* What the signature covers *)

\* C36: two payloads whose content differs, signed with one secret, are
\* serialised to different strings and get different signatures.
C36_SignatureCoversPayload ==
    signer.pc = "both" /\ ~SameContent(signer.payload, signer.other)
        => /\ signer.payloadString # signer.otherString
           /\ signer.signature # signer.otherSignature

====
